---- MODULE Spec2Model ----
(***************************************************************************)
(* Model of pgmpy/models/continuous/JointGaussianDistribution.py.          *)
(*                                                                         *)
(* Python objects live on a heap: every list and every numpy matrix is a   *)
(* heap cell named by its address, and an attribute of an instance holds   *)
(* an address.  Rebinding an attribute changes the address it holds;       *)
(* writing an element changes the cell.  Two attributes holding the same   *)
(* address are the same Python object.                                     *)
(*                                                                         *)
(* A Python str is a sequence of one-character strings; an identifier is   *)
(* a str.  A numpy array is a shape and its elements in row-major order.   *)
(* Matrix elements are exact rationals data[k] / den with one denominator  *)
(* for the whole matrix (den = 1 for every matrix read from an input).     *)
(***************************************************************************)
EXTENDS Integers, Sequences, FiniteSets, TLC

VARIABLES heap,   \* address -> cell (a list or a matrix)
          objs,   \* the JointGaussianDistribution instances the caller holds
          last,   \* the latest call: what was called, on what, and its outcome
          writes  \* number of element writes the caller has made

vars == <<heap, objs, last, writes>>

\* ---------------------------------------------------------------- bounds
MaxCells == 9     \* objects ever allocated
MaxInst == 2      \* instances the caller holds
MaxWrites == 1    \* element writes by the caller

\* ------------------------------------------------------- python values
None == 0

a == <<"a">>
b == <<"b">>
ab == <<"a", "b">>

Str(s) == [type |-> "str", items |-> s]
List(s) == [type |-> "list", items |-> s]

\* isinstance(variables, six.string_types)
\* (variant: the test is missing)
isinstance_str_never(x) == FALSE
isinstance_str(x) == x.type = "str"

\* iteration: a str yields its characters, each a str of length one
iter(x) == IF x.type = "str" THEN [k \in 1..Len(x.items) |-> <<x.items[k]>>]
           ELSE x.items

Array(shape, data) == [type |-> "array", shape |-> shape, data |-> data, den |-> 1]

RECURSIVE Prod(_)
Prod(s) == IF s = <<>> THEN 1 ELSE s[1] * Prod(Tail(s))

size(x) == Prod(x.shape)

\* len(): the length of a list, the first axis of an array
len(x) == IF x.type = "array" THEN x.shape[1] ELSE Len(x.items)

\* np.reshape(x, (n, 1)) keeps the elements in row-major order
can_reshape(x, n) == size(x) = n
np_reshape(x, n) == [x EXCEPT !.shape = <<n, 1>>]

\* np.matrix(x): a new two-dimensional matrix; a 1-d input becomes one row
np_matrix(x) == IF Len(x.shape) = 1 THEN [x EXCEPT !.shape = <<1, x.shape[1]>>]
                ELSE x

\* element [i, j] of a matrix, 0-based as in numpy
at(M, i, j) == M.data[i * M.shape[2] + j + 1]

\* matrix[rows][:, cols] for index lists rows, cols: M[np.ix_(rows, cols)]
ix_(M, rows, cols) ==
    [M EXCEPT !.shape = <<Len(rows), Len(cols)>>,
              !.data = [k \in 1..(Len(rows) * Len(cols)) |->
                           at(M, rows[((k - 1) \div Len(cols)) + 1],
                                 cols[((k - 1) % Len(cols)) + 1])]]

range(n) == 0..(n - 1)

RECURSIVE sorted(_)
sorted(S) == IF S = {} THEN <<>>
             ELSE LET m == CHOOSE x \in S : \A y \in S : x <= y
                  IN <<m>> \o sorted(S \ {m})

\* matrix[rows] for an index list rows: whole rows, all columns kept
\* (variant: the matrix is not indexed)
take_rows_all(M, rows) == M
take_rows(M, rows) == ix_(M, rows, sorted(range(M.shape[2])))

RECURSIVE SumSeq(_)
SumSeq(s) == IF s = <<>> THEN 0 ELSE s[1] + SumSeq(Tail(s))

Sign(k) == IF k % 2 = 0 THEN 1 ELSE -1

Minor(M, i, j) == ix_(M, sorted(range(M.shape[1]) \ {i}), sorted(range(M.shape[2]) \ {j}))

RECURSIVE Det(_)
Det(M) == IF M.shape[1] = 0 THEN 1
          ELSE IF M.shape[1] = 1 THEN at(M, 0, 0)
          ELSE SumSeq([k \in 1..M.shape[2] |->
                          Sign(k - 1) * at(M, 0, k - 1) * Det(Minor(M, 0, k - 1))])

\* np.linalg.inv(M) = adj(M) / det(M); raises LinAlgError when det(M) = 0
invertible(M) == Det(M) # 0
np_linalg_inv(M) ==
    LET n == M.shape[1]
    IN [M EXCEPT !.data = [k \in 1..(n * n) |->
                              LET i == (k - 1) \div n
                                  j == (k - 1) % n
                              IN Sign(i + j) * Det(Minor(M, j, i))],
                 !.den = Det(M) * M.den]

\* list.index(var): position of the first occurrence, -1 for ValueError
index(items, var) ==
    IF \E k \in 1..Len(items) : items[k] = var
    THEN (CHOOSE k \in 1..Len(items) :
              items[k] = var /\ \A m \in 1..(k - 1) : items[m] # var) - 1
    ELSE -1

\* ------------------------------------------------------------ the class
Raise(exc, where, h, o) ==
    [raised |-> exc, where |-> where, heap |-> h, objs |-> o, ret |-> None]

\* self.covariance_matrix.shape == (n, n)
\* (variant: the test is missing)
shape_ok_any(cm, n) == TRUE
shape_ok(cm, n) == cm.shape = <<n, n>>

\* __init__(self, variables, mean_vector, covariance_matrix); variables is
\* the address of the caller's list, the two arrays are values to be coerced
init(h, o, variables, mean_vector, covariance_matrix) ==
    LET n == len(h[variables])
    IN IF len(mean_vector) # n
       THEN Raise("ValueError", "len(mean_vector)", h, o)
       ELSE IF ~can_reshape(mean_vector, n)
       THEN Raise("ValueError", "np.reshape", h, o)
       ELSE IF ~shape_ok(np_matrix(covariance_matrix), n)
       THEN Raise("ValueError", "covariance_matrix.shape", h, o)
       ELSE [raised |-> "none", where |-> "",
             heap |-> h \o <<np_matrix(np_reshape(mean_vector, n)),
                             np_matrix(covariance_matrix)>>,
             objs |-> Append(o, [variables |-> variables,
                                 mean_vector |-> Len(h) + 1,
                                 covariance_matrix |-> Len(h) + 2,
                                 _precision_matrix |-> None]),
             ret |-> Len(o) + 1]

\* the precision_matrix property: compute on first use, then return the cache
precision_matrix(h, o, self) ==
    IF o[self]._precision_matrix = None
    THEN IF ~invertible(h[o[self].covariance_matrix])
         THEN Raise("LinAlgError", "np.linalg.inv", h, o)
         ELSE [raised |-> "none", where |-> "",
               heap |-> Append(h, np_linalg_inv(h[o[self].covariance_matrix])),
               objs |-> [o EXCEPT ![self]._precision_matrix = Len(h) + 1],
               ret |-> Len(h) + 1]
    ELSE [raised |-> "none", where |-> "", heap |-> h, objs |-> o,
          ret |-> o[self]._precision_matrix]

\* copy_distribution._precision_matrix = self._precision_matrix
with_precision(r, p) == [r EXCEPT !.objs[r.ret]._precision_matrix = p]

\* copy(self): a new instance built from self's attributes
copy(h, o, self) ==
    with_precision(init(h, o, o[self].variables, h[o[self].mean_vector],
                        h[o[self].covariance_matrix]),
                   o[self]._precision_matrix)

\* distribution = self if inplace else self.copy()
\* (variant: distribution = self)
distribution_self(h, o, self, inplace) ==
    [raised |-> "none", where |-> "", heap |-> h, objs |-> o, ret |-> self]
distribution(h, o, self, inplace) ==
    IF inplace
    THEN [raised |-> "none", where |-> "", heap |-> h, objs |-> o, ret |-> self]
    ELSE copy(h, o, self)

\* [distribution.variables.index(var) for var in variables]
\* (variant: identifiers that are not variables are skipped)
var_indexes_of(items, target) == [k \in 1..Len(target) |-> index(items, target[k])]
var_indexes_known(items, target) ==
    var_indexes_of(items, SelectSeq(target, LAMBDA v : index(items, v) # -1))
var_indexes(items, target) == [k \in 1..Len(target) |-> index(items, target[k])]

\* sorted(set(range(len(self.variables))) - set(var_indexes))
\* (variant: only the first of var_indexes is removed)
index_to_keep_first(n, vi) ==
    sorted(range(n) \ (IF vi = <<>> THEN {} ELSE {vi[1]}))
index_to_keep(n, vi) == sorted(range(n) \ {vi[k] : k \in 1..Len(vi)})

\* distribution.<field> = value: the attribute is bound to a new object
\* (variant: the value is written into the object the attribute holds)
assign_through(s, d, field, value) ==
    [s EXCEPT !.heap[s.objs[d][field]] = value]
assign(s, d, field, value) ==
    [s EXCEPT !.heap = Append(s.heap, value),
              !.objs[d][field] = Len(s.heap) + 1]

\* distribution.variables = [distribution.variables[index] for index in index_to_keep]
set_variables(s, d, keep) ==
    assign(s, d, "variables",
           List([k \in 1..Len(keep) |-> s.heap[s.objs[d].variables].items[keep[k] + 1]]))

\* distribution.mean_vector = distribution.mean_vector[index_to_keep]
set_mean_vector(s, d, keep) ==
    assign(s, d, "mean_vector", take_rows(s.heap[s.objs[d].mean_vector], keep))

\* distribution.covariance_matrix =
\*     distribution.covariance_matrix[np.ix_(index_to_keep, index_to_keep)]
set_covariance_matrix(s, d, keep) ==
    assign(s, d, "covariance_matrix",
           ix_(s.heap[s.objs[d].covariance_matrix], keep, keep))

\* distribution._precision_matrix = None
\* (variant: the cache is kept)
reset_precision_keep(s, d) == s
reset_precision(s, d) == [s EXCEPT !.objs[d]._precision_matrix = None]

\* if not inplace: return distribution
returned(s, inplace) == [s EXCEPT !.ret = IF inplace THEN None ELSE s.ret]

\* lines 133 to 139, on the instance c.ret chosen at line 128
select(c, keep, inplace) ==
    returned(
        reset_precision(
            set_covariance_matrix(
                set_mean_vector(set_variables(c, c.ret, keep), c.ret, keep),
                c.ret, keep),
            c.ret),
        inplace)

\* lines 130 to 139; a lookup that fails raises before anything is assigned,
\* and the copy made for inplace=False is then dropped
lookup(h, o, self, inplace, c, vi) ==
    IF \E k \in 1..Len(vi) : vi[k] = -1
    THEN Raise("ValueError", "list.index", h, o)
    ELSE select(c, index_to_keep(len(h[o[self].variables]), vi), inplace)

on_distribution(h, o, self, variables, inplace, c) ==
    lookup(h, o, self, inplace, c,
           var_indexes(c.heap[c.objs[c.ret].variables].items, iter(variables)))

marginalize(h, o, self, variables, inplace) ==
    IF isinstance_str(variables)
    THEN Raise("TypeError", "isinstance", h, o)
    ELSE on_distribution(h, o, self, variables, inplace,
                         distribution(h, o, self, inplace))

\* ------------------------------------------------------------ the inputs
VarInputs == { <<>>, <<a>>, <<b, a>>, <<a, b, ab>> }

MeanInputs == { Array(<<0>>, <<>>),
                Array(<<1>>, <<7>>),
                Array(<<2>>, <<1, -3>>),
                Array(<<1, 2>>, <<1, -3>>),
                Array(<<3, 1>>, <<1, -3, 4>>),
                Array(<<3, 2>>, <<1, -3, 4, 1, -3, 4>>) }

CovInputs == { Array(<<0, 0>>, <<>>),
               Array(<<1>>, <<4>>),
               Array(<<2, 2>>, <<4, 2, 2, 5>>),
               Array(<<2, 2>>, <<1, 2, 2, 4>>),
               Array(<<2, 3>>, <<4, 2, -2, 2, 5, -5>>),
               Array(<<3, 3>>, <<4, 2, -2, 2, 5, -5, -2, -5, 8>>) }

MargArgs == { List(<<>>), List(<<a>>), List(<<a, b>>), List(<<ab, a>>),
              List(<<a, a>>), Str(ab) }

\* -------------------------------------------------------------- actions
Call(op, self, arg, inplace, r) ==
    [op |-> op, self |-> self, arg |-> arg, inplace |-> inplace, field |-> "",
     raised |-> r.raised, where |-> r.where, ret |-> r.ret]

Init ==
    /\ heap = <<>>
    /\ objs = <<>>
    /\ last = Call("none", None, List(<<>>), FALSE, Raise("none", "", <<>>, <<>>))
    /\ writes = 0

\* the call returns or raises: r is what it left behind
Done(op, self, arg, inplace, r) ==
    /\ Len(r.heap) <= MaxCells
    /\ Len(r.objs) <= MaxInst
    /\ heap' = r.heap
    /\ objs' = r.objs
    /\ last' = Call(op, self, arg, inplace, r)
    /\ UNCHANGED writes

\* a constructor call that raises leaves no object behind
construct(h, r) == IF r.raised = "none" THEN r ELSE [r EXCEPT !.heap = h]

\* d = JointGaussianDistribution(list(v), m, c)
Construct(v, m, c) ==
    Done("construct", None, List(<<>>), FALSE,
         construct(heap, init(Append(heap, List(v)), objs, Len(heap) + 1, m, c)))

\* objs[self].precision_matrix
PrecisionMatrix(self) ==
    Done("precision_matrix", self, List(<<>>), FALSE,
         precision_matrix(heap, objs, self))

\* objs[self].marginalize(variables, inplace)
Marginalize(self, variables, inplace) ==
    Done("marginalize", self, variables, inplace,
         marginalize(heap, objs, self, variables, inplace))

\* c = objs[self].copy()
Copy(self) ==
    Done("copy", self, List(<<>>), FALSE, copy(heap, objs, self))

Next ==
    \/ \E v \in VarInputs, m \in MeanInputs, c \in CovInputs : Construct(v, m, c)
    \/ \E self \in 1..Len(objs) : PrecisionMatrix(self)
    \/ \E self \in 1..Len(objs), variables \in MargArgs, inplace \in BOOLEAN :
           Marginalize(self, variables, inplace)
    \/ \E self \in 1..Len(objs) : Copy(self)

Spec == Init /\ [][Next]_vars

\* construction alone: every behaviour is a sequence of constructor calls
NextConstruct ==
    \E v \in VarInputs, m \in MeanInputs, c \in CovInputs : Construct(v, m, c)

SpecConstruct == Init /\ [][NextConstruct]_vars

\* The attributes are public and precision_matrix returns the cached matrix
\* itself, so the caller can write an element of any of the four objects:
\* objs[self].<field>[k] = val
Fields == {"variables", "mean_vector", "covariance_matrix", "_precision_matrix"}

\* the values the caller writes: an identifier into a list, a number into a matrix
Written(cell) == IF cell.type = "list" THEN {<<"z">>} ELSE {0}
\* the element written: the first one, x[0] or x[0, 0], when there is one
Positions(cell) == IF cell.type = "list" THEN 1..Len(cell.items) \cap {1}
                   ELSE 1..Len(cell.data) \cap {1}

SetItem(self, field, k, val) ==
    /\ writes < MaxWrites
    /\ heap' = IF heap[objs[self][field]].type = "list"
               THEN [heap EXCEPT ![objs[self][field]].items[k] = val]
               ELSE [heap EXCEPT ![objs[self][field]].data[k] = val]
    /\ last' = [Call("setitem", self, List(<<>>), FALSE, Raise("none", "", heap, objs))
                   EXCEPT !.field = field]
    /\ UNCHANGED objs
    /\ writes' = writes + 1

NextMut ==
    \/ Next
    \/ \E self \in 1..Len(objs) :
          \E field \in {f \in Fields : objs[self][f] # None} :
            \E k \in Positions(heap[objs[self][field]]) :
              \E val \in Written(heap[objs[self][field]]) :
                SetItem(self, field, k, val)

SpecMut == Init /\ [][NextMut]_vars

\* ------------------------------------------------------------- readings
Insts == 1..Len(objs)

Cell(h, x) == IF x = None THEN [type |-> "None"] ELSE h[x]

\* what an instance holds, by value
ViewOf(h, o, i) ==
    [variables |-> h[o[i].variables].items,
     mean_vector |-> h[o[i].mean_vector],
     covariance_matrix |-> h[o[i].covariance_matrix],
     precision |-> Cell(h, o[i]._precision_matrix)]

View(i) == ViewOf(heap, objs, i)

Params(v) == [variables |-> v.variables, mean_vector |-> v.mean_vector,
              covariance_matrix |-> v.covariance_matrix]

Distinct(s) == \A i, j \in 1..Len(s) : s[i] = s[j] => i = j
Elems(s) == {s[k] : k \in 1..Len(s)}

\* P * S = I for rational matrices P.data / P.den and S.data / S.den
IsInverse(P, S) ==
    /\ P.type = "array"
    /\ P.shape = S.shape
    /\ P.shape[1] = P.shape[2]
    /\ P.den # 0
    /\ \A i, j \in range(P.shape[1]) :
          SumSeq([k \in 1..P.shape[1] |-> at(P, i, k - 1) * at(S, k - 1, j)])
              = (IF i = j THEN P.den * S.den ELSE 0)

\* the marginal of (V, mu, Sigma) over V without R: the entries at the
\* positions of V whose identifier is not in R, in V's order
KeptPos(V, R) == {k \in 1..Len(V) : V[k] \notin R}
Nth(S, k) == CHOOSE x \in S : Cardinality({y \in S : y < x}) = k - 1

Marginal(v, R) ==
    LET K == KeptPos(v.variables, R)
        n == Cardinality(K)
    IN [variables |-> [k \in 1..n |-> v.variables[Nth(K, k)]],
        mean_vector |-> [type |-> "array", shape |-> <<n, 1>>, den |-> 1,
                         data |-> [k \in 1..n |-> v.mean_vector.data[Nth(K, k)]]],
        covariance_matrix |->
            [type |-> "array", shape |-> <<n, n>>, den |-> 1,
             data |-> [k \in 1..(n * n) |->
                          v.covariance_matrix.data[
                              (Nth(K, ((k - 1) \div n) + 1) - 1) * Len(v.variables)
                              + Nth(K, ((k - 1) % n) + 1)]]]]

Ok(l) == l.raised = "none"
MargOk(l) == l.op = "marginalize" /\ Ok(l)

\* --------------------------------------------------------------- claims

\* C1: on every instance the cached precision matrix is unset or is the
\* inverse of the instance's current covariance matrix, and what a
\* precision_matrix query returns is the inverse of the current covariance
\* matrix, never a matrix cached for an earlier covariance matrix.
C1_CacheIsInverse ==
    /\ \A i \in Insts :
          objs[i]._precision_matrix # None
              => IsInverse(heap[objs[i]._precision_matrix],
                           heap[objs[i].covariance_matrix])
    /\ (last.op = "precision_matrix" /\ Ok(last))
          => /\ last.ret = objs[last.self]._precision_matrix
             /\ IsInverse(heap[last.ret], heap[objs[last.self].covariance_matrix])

\* a 3 x 3 inverse computed before a marginalize is still on the heap, and the
\* query after the marginalize returned a different, 2 x 2 matrix
C1_Witness ==
    /\ last.op = "precision_matrix" /\ Ok(last)
    /\ heap[last.ret].shape = <<2, 2>>
    /\ \E q \in 1..Len(heap) :
          /\ q # last.ret
          /\ heap[q].type = "array"
          /\ heap[q].shape = <<3, 3>>
          /\ heap[q].den # 1

\* C2: with distinct variables and every identifier of R present, marginalize
\* succeeds and its result is the marginal over V without R in V's order; the
\* result depends on the set of identifiers in R only, not on their order.
C2_MarginalizeResult ==
    [][ (/\ last'.op = "marginalize"
         /\ last'.arg.type = "list"
         /\ Distinct(View(last'.self).variables)
         /\ Elems(last'.arg.items) \subseteq Elems(View(last'.self).variables))
        => /\ Ok(last')
           /\ Params(ViewOf(heap', objs',
                            IF last'.inplace THEN last'.self ELSE last'.ret))
                 = Marginal(View(last'.self), Elems(last'.arg.items)) ]_vars

\* identifiers given in an order other than V's: [ab, a] out of [a, b, ab]
C2_Witness ==
    /\ MargOk(last)
    /\ last.arg = List(<<ab, a>>)
    /\ last.inplace
    /\ View(last.self).variables = <<b>>
    /\ View(last.self).mean_vector.data = <<-3>>
    /\ View(last.self).covariance_matrix.data = <<5>>

\* C3: marginalize(R, inplace=false) leaves the receiver's attributes and
\* the objects they hold as they were and returns a new instance holding the
\* marginal; marginalize(R, inplace=true) returns nothing, creates no
\* instance and leaves the marginal in the receiver.
C3_InplaceOrNew ==
    [][ MargOk(last')
        => IF last'.inplace
           THEN /\ last'.ret = None
                /\ Len(objs') = Len(objs)
                /\ Distinct(View(last'.self).variables)
                      => Params(ViewOf(heap', objs', last'.self))
                            = Marginal(View(last'.self), Elems(last'.arg.items))
           ELSE /\ objs'[last'.self] = objs[last'.self]
                /\ ViewOf(heap', objs', last'.self) = View(last'.self)
                /\ last'.ret = Len(objs) + 1
                /\ Len(objs') = Len(objs) + 1
                /\ Distinct(View(last'.self).variables)
                      => Params(ViewOf(heap', objs', last'.ret))
                            = Marginal(View(last'.self), Elems(last'.arg.items)) ]_vars

\* a receiver with its precision cached kept three variables while the
\* returned instance has fewer
C3_Witness ==
    /\ MargOk(last)
    /\ ~last.inplace
    /\ objs[last.self]._precision_matrix # None
    /\ Len(View(last.self).variables) = 3
    /\ Len(View(last.ret).variables) < 3

\* C4: copy() gives the copy its own variables, mean_vector and
\* covariance_matrix objects, none the same object as the source's, and
\* writing an element of one of these on an instance changes no other instance.
C4_CopyOwnsStorage ==
    [][ /\ (last'.op = "copy" /\ Ok(last'))
           => \A f \in {"variables", "mean_vector", "covariance_matrix"} :
                 objs'[last'.ret][f] # objs'[last'.self][f]
        /\ (last'.op = "setitem" /\ last'.field # "_precision_matrix")
           => \A j \in Insts \ {last'.self} :
                 Params(ViewOf(heap', objs', j)) = Params(View(j)) ]_vars

\* C5: copy() carries the source's cached precision matrix over by value
\* into an object of its own (unset stays unset), and writing an element of
\* one instance's cached matrix changes no other instance's cached matrix.
C5_CopyOwnsPrecision ==
    [][ /\ (last'.op = "copy" /\ Ok(last'))
           => /\ ViewOf(heap', objs', last'.ret).precision
                    = View(last'.self).precision
              /\ objs[last'.self]._precision_matrix # None
                    => objs'[last'.ret]._precision_matrix
                          # objs'[last'.self]._precision_matrix
        /\ (last'.op = "setitem" /\ last'.field = "_precision_matrix")
           => \A j \in Insts \ {last'.self} :
                 ViewOf(heap', objs', j).precision = View(j).precision ]_vars

\* C6: a copy starts equal to its source by value, and a precision_matrix
\* query or an in-place marginalize on one instance changes nothing of any
\* other instance: variables, mean_vector, covariance_matrix, precision cache.
C6_CopyIndependent ==
    [][ /\ (last'.op = "copy" /\ Ok(last'))
           => Params(ViewOf(heap', objs', last'.ret))
                 = Params(ViewOf(heap', objs', last'.self))
        /\ (last'.op = "precision_matrix" \/ (last'.op = "marginalize" /\ last'.inplace))
           => \A j \in Insts \ {last'.self} :
                 /\ objs'[j] = objs[j]
                 /\ ViewOf(heap', objs', j) = View(j) ]_vars

\* instance 2 holds the list instance 1 was constructed with, so it is a copy
\* of instance 1; instance 1 was then marginalized in place and differs from it
C6_Witness ==
    /\ MargOk(last)
    /\ last.inplace
    /\ last.self = 1
    /\ Len(objs) = 2
    /\ objs[2].variables = 1
    /\ Len(View(1).variables) < Len(View(2).variables)
    /\ objs[2]._precision_matrix # None

\* C7 as stated: construction fails exactly when the mean is not coercible
\* to a length-n column vector or the coerced covariance matrix is not
\* n x n; otherwise it succeeds and exposes what was provided, cache unset.
Provided(v, m, c) ==
    [variables |-> v,
     mean_vector |-> [type |-> "array", shape |-> <<Len(v), 1>>,
                      den |-> 1, data |-> m.data],
     covariance_matrix |-> [type |-> "array", shape |-> <<Len(v), Len(v)>>,
                            den |-> 1, data |-> c.data],
     precision |-> [type |-> "None"]]

CoercedCovShape(c) == IF Len(c.shape) = 1 THEN <<1, c.shape[1]>> ELSE c.shape

C7_Original ==
    [][ \A v \in VarInputs, m \in MeanInputs, c \in CovInputs :
          Construct(v, m, c)
          => IF size(m) = Len(v) /\ CoercedCovShape(c) = <<Len(v), Len(v)>>
             THEN Ok(last') /\ ViewOf(heap', objs', last'.ret) = Provided(v, m, c)
             ELSE last'.raised = "ValueError" /\ objs' = objs ]_vars

\* C7 amended: construction fails exactly when the length of the mean as
\* given (its first axis, before coercion) differs from n, or the mean does
\* not have n elements, or the coerced covariance matrix is not n x n;
\* otherwise it succeeds and exposes what was provided, cache unset.
C7_Construct ==
    [][ \A v \in VarInputs, m \in MeanInputs, c \in CovInputs :
          Construct(v, m, c)
          => IF /\ m.shape[1] = Len(v)
                /\ size(m) = Len(v)
                /\ CoercedCovShape(c) = <<Len(v), Len(v)>>
             THEN Ok(last') /\ ViewOf(heap', objs', last'.ret) = Provided(v, m, c)
             ELSE last'.raised = "ValueError" /\ objs' = objs /\ heap' = heap ]_vars

\* one construction succeeded and a later one was refused for its mean
C7_Witness ==
    /\ last.op = "construct"
    /\ last.raised = "ValueError"
    /\ last.where = "len(mean_vector)"
    /\ \E i \in Insts : Len(View(i).variables) = 3

\* C8: marginalize given a bare string fails with TypeError for either value
\* of inplace, whether or not the string or its characters name variables,
\* and changes nothing.
C8_ScalarRejected ==
    [][ (last'.op = "marginalize" /\ last'.arg.type = "str")
        => /\ last'.raised = "TypeError"
           /\ objs' = objs
           /\ heap' = heap ]_vars

\* the string "ab" names a variable of the receiver and so does each of its
\* characters
C8_Witness ==
    /\ last.op = "marginalize"
    /\ last.arg = Str(ab)
    /\ last.raised = "TypeError"
    /\ {a, b, ab} \subseteq Elems(View(last.self).variables)

\* C9: every instance has len(mean_vector) = len(variables) =
\* covariance_matrix rows = covariance_matrix columns.
C9_Dimensions ==
    \A i \in Insts :
       LET n == Len(View(i).variables)
       IN /\ View(i).mean_vector.shape = <<n, 1>>
          /\ Len(View(i).mean_vector.data) = n
          /\ View(i).covariance_matrix.shape = <<n, n>>
          /\ Len(View(i).covariance_matrix.data) = n * n

\* all variables were removed: a zero-dimensional instance
C9_Witness ==
    /\ MargOk(last)
    /\ last.inplace
    /\ last.arg.items # <<>>
    /\ View(last.self).variables = <<>>
    /\ View(last.self).mean_vector.shape = <<0, 1>>
    /\ View(last.self).covariance_matrix.shape = <<0, 0>>

\* C10: marginalize given a collection with an identifier that is not a
\* variable of the receiver fails with ValueError and changes nothing,
\* whatever else the collection holds, for either value of inplace.
C10_FailureHasNoEffect ==
    [][ (/\ last'.op = "marginalize"
         /\ last'.arg.type = "list"
         /\ ~(Elems(last'.arg.items) \subseteq Elems(View(last'.self).variables)))
        => /\ last'.raised = "ValueError"
           /\ objs' = objs
           /\ heap' = heap ]_vars

\* [a, b] given to a receiver that has a but not b, its precision cached
C10_Witness ==
    /\ last.op = "marginalize"
    /\ last.raised = "ValueError"
    /\ last.arg = List(<<a, b>>)
    /\ View(last.self).variables = <<a>>
    /\ objs[last.self]._precision_matrix # None
====
